---- MODULE Spec2Model ----
(***************************************************************************)
(* A model of src/handlers/swap_handlers.ts of 0x-api: the swap request    *)
(* parser (parseGetSwapQuoteRequestParams), the quote orchestration and    *)
(* error classification (_calculateSwapQuoteAsync), the quote and price    *)
(* endpoints, and the RFQT registry endpoint with its labelled counter.    *)
(*                                                                         *)
(* Conventions.                                                            *)
(*  - A JavaScript string is a TLA+ string; Undefined stands for the       *)
(*    JavaScript value undefined (no raw input is ever that string).       *)
(*  - A JavaScript number is a record [nan, v]: v is the value in units    *)
(*    of 1/Scale (fixed point), nan marks NaN.                             *)
(*  - A JavaScript object handed to lodash or to res.send is a function    *)
(*    from its keys to values.                                             *)
(***************************************************************************)
EXTENDS Integers, Sequences, FiniteSets, TLC

VARIABLES
    phase,      \* "serving" (the server), or "input"/"done" (one call of a function)
    req,        \* the request being handled: endpoint, query parameters, headers
    down,       \* what the collaborators outside this file answer for this request
    params,     \* outcome of parseGetSwapQuoteRequestParams
    calc,       \* outcome of _calculateSwapQuoteAsync
    res,        \* the response written by the handler
    counter,    \* REGISTRY_ENDPOINT_FETCHED: label -> count
    fetched,    \* history: Authorization header value -> registry requests made with it
    served      \* history: number of requests handled

vars == <<phase, req, down, params, calc, res, counter, fetched, served>>

-----------------------------------------------------------------------------
(* Bounds of the model *)

\* longest raw slippagePercentage text enumerated
MaxStrLen == 3
\* number of requests the server handles in one behaviour
MaxRequests == 3

-----------------------------------------------------------------------------
(* JavaScript values *)

Undefined == "<undefined>"

\* JavaScript truthiness of a string-or-undefined value: `x ? .. : ..`, `x || ..`
TruthyStr(x) == x # Undefined /\ x # ""

\* fixed point: one unit is 10^-(MaxStrLen+1), enough for every enumerated text
RECURSIVE Pow10(_)
Pow10(n) == IF n = 0 THEN 1 ELSE 10 * Pow10(n - 1)

Scale == Pow10(MaxStrLen + 1)

NaN == [nan |-> TRUE, v |-> 0]
Num(v) == [nan |-> FALSE, v |-> v]

\* `x || d` on numbers: NaN, 0 and -0 are falsy
OrDefault(x, d) == IF x.nan \/ x.v = 0 THEN d ELSE x

\* `x > k` on numbers: any comparison with NaN is false
Gt(x, k) == ~x.nan /\ x.v > k * Scale

Digits == {"0", "1", "2", "3", "4", "5", "6", "7", "8", "9"}
WhiteSpace == {" ", "\t"}

DigitVal(c) ==
    CASE c = "0" -> 0 [] c = "1" -> 1 [] c = "2" -> 2 [] c = "3" -> 3
      [] c = "4" -> 4 [] c = "5" -> 5 [] c = "6" -> 6 [] c = "7" -> 7
      [] c = "8" -> 8 [] c = "9" -> 9

CharAt(s, i) == SubSeq(s, i, i)

\* the end (exclusive) of the run of decimal digits of s that starts at i
RECURSIVE DigitsEnd(_, _)
DigitsEnd(s, i) ==
    IF i <= Len(s) /\ CharAt(s, i) \in Digits THEN DigitsEnd(s, i + 1) ELSE i

\* the whole number written by the digits s[i..j-1] (0 for an empty run)
RECURSIVE DigitsValue(_, _, _)
DigitsValue(s, i, j) ==
    IF j <= i THEN 0 ELSE 10 * DigitsValue(s, i, j - 1) + DigitVal(CharAt(s, j - 1))

RECURSIVE SkipWhiteSpace(_, _)
SkipWhiteSpace(s, i) ==
    IF i <= Len(s) /\ CharAt(s, i) \in WhiteSpace THEN SkipWhiteSpace(s, i + 1) ELSE i

(* Number.parseFloat: leading white space is skipped, then the longest prefix
   of the form [+-] digits [. digits] or [+-] . digits is converted; NaN when
   there is none.  Exponents and "Infinity" are not modelled: no enumerated
   text holds an "e" or an "I".  parseFloat(undefined) converts the text
   "undefined", which is NaN, as is every text that starts with "<". *)
ParseFloat(s) ==
    LET b    == SkipWhiteSpace(s, 1)
        sgn  == IF b <= Len(s) /\ CharAt(s, b) = "-" THEN -1 ELSE 1
        i0   == IF b <= Len(s) /\ CharAt(s, b) \in {"-", "+"} THEN b + 1 ELSE b
        i1   == DigitsEnd(s, i0)
        dot  == i1 <= Len(s) /\ CharAt(s, i1) = "."
        f0   == i1 + 1
        f1   == IF dot THEN DigitsEnd(s, f0) ELSE f0
        nInt == i1 - i0
        nFr  == f1 - f0
    IN  IF nInt = 0 /\ (~dot \/ nFr = 0)
        THEN NaN
        ELSE Num(sgn * (DigitsValue(s, i0, i1) * Scale
                        + (IF dot /\ nFr > 0
                           THEN DigitsValue(s, f0, f1) * (Scale \div Pow10(nFr))
                           ELSE 0)))

\* every text of at most n characters over the alphabet A
RECURSIVE Texts(_, _)
Texts(A, n) ==
    IF n = 0 THEN {""}
    ELSE LET P == Texts(A, n - 1) IN P \cup {p \o c : p \in P, c \in A}

-----------------------------------------------------------------------------
(* Errors thrown by the handlers (src/errors.ts, used by swap_handlers.ts) *)

\* a failure raised by the swap service: what isAPIError and isRevertError
\* answer for it, and its message
NoFailure == [isAPIError |-> FALSE, isRevertError |-> FALSE, message |-> ""]

NoError == [kind |-> "none", entries |-> <<>>, message |-> "", cause |-> NoFailure]

Entry(field, code, reason) == [field |-> field, code |-> code, reason |-> reason]

ValidationError(entries) ==
    [kind |-> "ValidationError", entries |-> entries, message |-> "", cause |-> NoFailure]

\* new RevertAPIError(e)
RevertAPIError(e) ==
    [kind |-> "RevertAPIError", entries |-> <<>>, message |-> "", cause |-> e]

InternalServerError(message) ==
    [kind |-> "InternalServerError", entries |-> <<>>, message |-> message,
     cause |-> NoFailure]

\* `throw e`: the failure itself leaves the handler
Rethrown(e) == [kind |-> "rethrown", entries |-> <<>>, message |-> e.message, cause |-> e]

-----------------------------------------------------------------------------
(* parseGetSwapQuoteRequestParams *)

NULL_ADDRESS == "0x0000000000000000000000000000000000000000"

\* 0.01
DEFAULT_QUOTE_SLIPPAGE_PERCENTAGE == Num(Scale \div 100)

\* `req.query.x === undefined ? undefined : new BigNumber(req.query.x)`; a
\* BigNumber is an object, truthy whatever its value
NoAmount == [defined |-> FALSE, value |-> 0]
BigNumberOrUndefined(s) ==
    IF s = Undefined THEN NoAmount
    ELSE [defined |-> TRUE, value |-> DigitsValue(s, 1, DigitsEnd(s, 1))]

\* schemaUtils.validateSchema: the verdict of the JSON-schema validator
ValidateSchema(d) ==
    IF d.schemaValid THEN NoError
    ELSE ValidationError(<<Entry("instance", "IncorrectFormat", "schema")>>)

SlippagePercentageOf(q) ==
    OrDefault(ParseFloat(q.slippagePercentage), DEFAULT_QUOTE_SLIPPAGE_PERCENTAGE)

\* mutant: 100% is rejected too
SlippageCheckAtLeastOne(slippagePercentage) ==
    IF ~slippagePercentage.nan /\ slippagePercentage.v >= Scale
    THEN ValidationError(<<Entry("slippagePercentage", "ValueOutOfRange",
                                 "PercentageOutOfRange")>>)
    ELSE NoError

SlippageCheck(slippagePercentage) ==
    IF Gt(slippagePercentage, 1)
    THEN ValidationError(<<Entry("slippagePercentage", "ValueOutOfRange",
                                 "PercentageOutOfRange")>>)
    ELSE NoError

SellTokenPercentageFeeOf(q) == OrDefault(ParseFloat(q.sellTokenPercentageFee), Num(0))
BuyTokenPercentageFeeOf(q) == OrDefault(ParseFloat(q.buyTokenPercentageFee), Num(0))

SellFeeCheck(sellTokenPercentageFee) ==
    IF Gt(sellTokenPercentageFee, 0)
    THEN ValidationError(<<Entry("sellTokenPercentageFee", "UnsupportedOption",
                                 "ArgumentNotYetSupported")>>)
    ELSE NoError

\* mutant: a buy fee of 100% is rejected too
BuyFeeCheckAtLeastOne(buyTokenPercentageFee) ==
    IF ~buyTokenPercentageFee.nan /\ buyTokenPercentageFee.v >= Scale
    THEN ValidationError(<<Entry("buyTokenPercentageFee", "ValueOutOfRange",
                                 "PercentageOutOfRange")>>)
    ELSE NoError

BuyFeeCheck(buyTokenPercentageFee) ==
    IF Gt(buyTokenPercentageFee, 1)
    THEN ValidationError(<<Entry("buyTokenPercentageFee", "ValueOutOfRange",
                                 "PercentageOutOfRange")>>)
    ELSE NoError

AffiliateFeeOf(q) ==
    IF TruthyStr(q.feeRecipient)
    THEN [recipient |-> q.feeRecipient,
          sellTokenPercentageFee |-> SellTokenPercentageFeeOf(q),
          buyTokenPercentageFee |-> BuyTokenPercentageFeeOf(q)]
    ELSE [recipient |-> NULL_ADDRESS,
          sellTokenPercentageFee |-> Num(0),
          buyTokenPercentageFee |-> Num(0)]

\* parseUtils.parseRequestForExcludedSources: it either throws or returns the
\* source filters and the exclusivity flag; what it answers is down.sources
ParseRequestForExcludedSources(d) ==
    IF d.sources.throws
    THEN [error |-> ValidationError(<<Entry("excludedSources", "IncorrectFormat",
                                            "sources")>>),
          nativeExclusivelyRFQT |-> FALSE]
    ELSE [error |-> NoError, nativeExclusivelyRFQT |-> d.sources.nativeExclusivelyRFQT]

NoRfqt ==
    [defined |-> FALSE, intentOnFilling |-> FALSE, isIndicative |-> FALSE,
     nativeExclusivelyRFQT |-> FALSE]

\* mutant: the price endpoint asks for a taker address as well
RfqtOfTakerAlwaysNeeded(endpoint, apiKey, q, nativeExclusivelyRFQT) ==
    IF TruthyStr(apiKey) /\ TruthyStr(q.takerAddress)
    THEN IF endpoint = "quote"
         THEN [defined |-> TRUE,
               intentOnFilling |-> (q.intentOnFilling = "true"),
               isIndicative |-> FALSE,
               nativeExclusivelyRFQT |-> nativeExclusivelyRFQT]
         ELSE [defined |-> TRUE,
               intentOnFilling |-> FALSE,
               isIndicative |-> TRUE,
               nativeExclusivelyRFQT |-> nativeExclusivelyRFQT]
    ELSE NoRfqt

RfqtOf(endpoint, apiKey, q, nativeExclusivelyRFQT) ==
    IF TruthyStr(apiKey)
    THEN IF endpoint = "quote" /\ TruthyStr(q.takerAddress)
         THEN [defined |-> TRUE,
               intentOnFilling |-> (q.intentOnFilling = "true"),
               isIndicative |-> FALSE,
               nativeExclusivelyRFQT |-> nativeExclusivelyRFQT]
         ELSE IF endpoint = "price"
              THEN [defined |-> TRUE,
                    intentOnFilling |-> FALSE,
                    isIndicative |-> TRUE,
                    nativeExclusivelyRFQT |-> nativeExclusivelyRFQT]
              ELSE NoRfqt
    ELSE NoRfqt

NoParams ==
    [takerAddress |-> Undefined, sellToken |-> Undefined, buyToken |-> Undefined,
     sellAmount |-> NoAmount, buyAmount |-> NoAmount,
     slippagePercentage |-> Num(0), rfqt |-> NoRfqt, skipValidation |-> FALSE,
     apiKey |-> Undefined,
     affiliateFee |-> [recipient |-> NULL_ADDRESS, sellTokenPercentageFee |-> Num(0),
                       buyTokenPercentageFee |-> Num(0)],
     includePriceComparisons |-> FALSE]

Threw(e) == [ok |-> FALSE, error |-> e, value |-> NoParams]
Returned(v) == [ok |-> TRUE, error |-> NoError, value |-> v]

NotParsed == [ok |-> FALSE, error |-> NoError, value |-> NoParams]

(* The parser: the first failing rule throws.  gasPrice, the source lists,
   affiliateAddress and shouldSellEntireBalance are carried to the result
   verbatim and are left out of the record. *)
ParseGetSwapQuoteRequestParams(r, d, endpoint) ==
    LET q       == r.query
        slip    == SlippagePercentageOf(q)
        sellFee == SellTokenPercentageFeeOf(q)
        buyFee  == BuyTokenPercentageFeeOf(q)
        src     == ParseRequestForExcludedSources(d)
    IN  IF ValidateSchema(d) # NoError THEN Threw(ValidateSchema(d))
        ELSE IF SlippageCheck(slip) # NoError THEN Threw(SlippageCheck(slip))
        ELSE IF SellFeeCheck(sellFee) # NoError THEN Threw(SellFeeCheck(sellFee))
        ELSE IF BuyFeeCheck(buyFee) # NoError THEN Threw(BuyFeeCheck(buyFee))
        ELSE IF src.error # NoError THEN Threw(src.error)
        ELSE Returned(
              [takerAddress |-> q.takerAddress,
               sellToken |-> q.sellToken,
               buyToken |-> q.buyToken,
               sellAmount |-> BigNumberOrUndefined(q.sellAmount),
               buyAmount |-> BigNumberOrUndefined(q.buyAmount),
               slippagePercentage |-> slip,
               rfqt |-> RfqtOf(endpoint, r.apiKey, q, src.nativeExclusivelyRFQT),
               skipValidation |-> (q.skipValidation # Undefined
                                   /\ q.skipValidation = "true"),
               apiKey |-> r.apiKey,
               affiliateFee |-> AffiliateFeeOf(q),
               includePriceComparisons |-> (q.includePriceComparisons = "true")])

-----------------------------------------------------------------------------
(* Token resolution (src/utils/token_metadata_utils.ts) *)

ETH_SYMBOL == "ETH"
ETHER_TOKEN_ADDRESS == "0xeeeeeeeeeeeeeeeeeeeeeeeeeeeeeeeeeeeeeeee"
WETH_ADDRESS == "0xc02aaa39b223fe8d0a0e5c4f27ead9083c756cc2"
DAI_ADDRESS == "0x6b175474e89094c44da98b954eedeac495271d0f"

\* the chain's token table: symbol -> address
TokenTable == [WETH |-> WETH_ADDRESS, DAI |-> DAI_ADDRESS]

IsETHSymbolOrAddress(t) == t \in {ETH_SYMBOL, ETHER_TOKEN_ADDRESS}
IsWETHSymbolOrAddress(t) == t \in {"WETH", WETH_ADDRESS}

IsAddress(t) == Len(t) >= 2 /\ SubSeq(t, 1, 2) = "0x"

\* findTokenAddressOrThrowApiError: [error, address]
FindTokenAddressOrThrowApiError(t, field) ==
    IF IsAddress(t) THEN [error |-> NoError, address |-> t]
    ELSE IF t \in DOMAIN TokenTable THEN [error |-> NoError, address |-> TokenTable[t]]
    ELSE [error |-> ValidationError(<<Entry(field, "ValueOutOfRange",
                                            "Could not find token")>>),
          address |-> Undefined]

-----------------------------------------------------------------------------
(* _calculateSwapQuoteAsync *)

\* SwapQuoterError of @0x/asset-swapper
InsufficientAssetLiquidity == "INSUFFICIENT_ASSET_LIQUIDITY"
AssetUnavailable == "ASSET_UNAVAILABLE"

\* String.prototype.startsWith
StartsWith(s, p) == Len(s) >= Len(p) /\ SubSeq(s, 1, Len(p)) = p

\* mutant: a zero buy amount is taken for an absent one
ClassifyErrorZeroBuyAmountFalsy(e, buyAmount) ==
    IF e.isAPIError THEN Rethrown(e)
    ELSE IF e.isRevertError THEN RevertAPIError(e)
    ELSE IF StartsWith(e.message, InsufficientAssetLiquidity)
            \/ StartsWith(e.message, "NO_OPTIMAL_PATH")
    THEN ValidationError(<<Entry(IF buyAmount.defined /\ buyAmount.value # 0
                                 THEN "buyAmount" ELSE "sellAmount",
                                 "ValueOutOfRange", InsufficientAssetLiquidity)>>)
    ELSE IF StartsWith(e.message, AssetUnavailable)
    THEN ValidationError(<<Entry("token", "ValueOutOfRange", e.message)>>)
    ELSE InternalServerError(e.message)

\* the catch block of _calculateSwapQuoteAsync
ClassifyError(e, buyAmount) ==
    IF e.isAPIError THEN Rethrown(e)
    ELSE IF e.isRevertError THEN RevertAPIError(e)
    ELSE IF StartsWith(e.message, InsufficientAssetLiquidity)
            \/ StartsWith(e.message, "NO_OPTIMAL_PATH")
    THEN ValidationError(<<Entry(IF buyAmount.defined THEN "buyAmount" ELSE "sellAmount",
                            "ValueOutOfRange", InsufficientAssetLiquidity)>>)
    ELSE IF StartsWith(e.message, AssetUnavailable)
    THEN ValidationError(<<Entry("token", "ValueOutOfRange", e.message)>>)
    ELSE InternalServerError(e.message)

IsWrap(sellToken, buyToken) ==
    IsETHSymbolOrAddress(sellToken) /\ IsWETHSymbolOrAddress(buyToken)

IsUnwrap(sellToken, buyToken) ==
    IsWETHSymbolOrAddress(sellToken) /\ IsETHSymbolOrAddress(buyToken)

\* mutant: the wrap/unwrap carve-out is forgotten
EqualTokenCheckNoCarveOut(isUnwrap, isWrap, sellTokenAddress, buyTokenAddress) ==
    IF sellTokenAddress = buyTokenAddress
    THEN ValidationError(<<Entry("buyToken", "RequiredField",
                            "buyToken and sellToken must be different"),
                      Entry("sellToken", "RequiredField",
                            "buyToken and sellToken must be different")>>)
    ELSE NoError

\* the equal-token check
EqualTokenCheck(isUnwrap, isWrap, sellTokenAddress, buyTokenAddress) ==
    IF ~isUnwrap /\ ~isWrap /\ sellTokenAddress = buyTokenAddress
    THEN ValidationError(<<Entry("buyToken", "RequiredField",
                            "buyToken and sellToken must be different"),
                      Entry("sellToken", "RequiredField",
                            "buyToken and sellToken must be different")>>)
    ELSE NoError

\* mutant: a wrap is routed like an ordinary pair
ServiceMethodWrapAsOrdinary(isUnwrap, isWrap) ==
    IF isUnwrap THEN "getSwapQuoteForUnwrapAsync"
    ELSE "calculateSwapQuoteAsync"

\* which method of the swap service the request is handed to
ServiceMethod(isUnwrap, isWrap) ==
    IF isUnwrap THEN "getSwapQuoteForUnwrapAsync"
    ELSE IF isWrap THEN "getSwapQuoteForWrapAsync"
    ELSE "calculateSwapQuoteAsync"

\* CalculateSwapQuoteParams, the fields the dispatch and the claims read
CalculateSwapQuoteParams(p, sellTokenAddress, buyTokenAddress) ==
    [buyTokenAddress |-> buyTokenAddress,
     sellTokenAddress |-> sellTokenAddress,
     buyAmount |-> p.buyAmount,
     sellAmount |-> p.sellAmount,
     from |-> p.takerAddress,
     isETHSell |-> IsETHSymbolOrAddress(p.sellToken),
     isETHBuy |-> IsETHSymbolOrAddress(p.buyToken),
     slippagePercentage |-> p.slippagePercentage,
     apiKey |-> p.apiKey,
     rfqt |-> p.rfqt,
     skipValidation |-> p.skipValidation,
     affiliateFee |-> p.affiliateFee,
     isMetaTransaction |-> FALSE,
     includePriceComparisons |-> p.includePriceComparisons]

NoQuote == [x \in {} |-> ""]

\* outcome of a call: the calls made to the swap service, then either the
\* quote returned or the error thrown
CalcThrew(calls, e) == [calls |-> calls, returned |-> FALSE, quote |-> NoQuote, thrown |-> e]
CalcReturned(calls, quote) ==
    [calls |-> calls, returned |-> TRUE, quote |-> quote, thrown |-> NoError]

NotCalculated == [calls |-> <<>>, returned |-> FALSE, quote |-> NoQuote, thrown |-> NoError]

CalculateSwapQuoteAsync(p, d) ==
    LET isETHSell == IsETHSymbolOrAddress(p.sellToken)
        isETHBuy  == IsETHSymbolOrAddress(p.buyToken)
        sell      == FindTokenAddressOrThrowApiError(
                         IF isETHSell THEN "WETH" ELSE p.sellToken, "sellToken")
        buy       == FindTokenAddressOrThrowApiError(
                         IF isETHBuy THEN "WETH" ELSE p.buyToken, "buyToken")
        isWrap    == IsWrap(p.sellToken, p.buyToken)
        isUnwrap  == IsUnwrap(p.sellToken, p.buyToken)
        equal     == EqualTokenCheck(isUnwrap, isWrap, sell.address, buy.address)
        call      == [method |-> ServiceMethod(isUnwrap, isWrap),
                      request |-> CalculateSwapQuoteParams(p, sell.address, buy.address)]
    IN  IF sell.error # NoError THEN CalcThrew(<<>>, sell.error)
        ELSE IF buy.error # NoError THEN CalcThrew(<<>>, buy.error)
        ELSE IF equal # NoError THEN CalcThrew(<<>>, equal)
        ELSE IF d.swap.throws
             THEN CalcThrew(<<call>>, ClassifyError(d.swap.failure, p.buyAmount))
             ELSE CalcReturned(<<call>>, d.swap.quote)

-----------------------------------------------------------------------------
(* The quote and price endpoints *)

HttpStatusOK == 200
HttpStatusUNAUTHORIZED == 401

\* lodash _.omit and _.pick, and `obj.key = value`
Omit(obj, keys) == [k \in (DOMAIN obj) \ keys |-> obj[k]]
Pick(obj, keys) == [k \in (DOMAIN obj) \cap keys |-> obj[k]]
Assign(obj, key, value) ==
    [k \in (DOMAIN obj) \cup {key} |-> IF k = key THEN value ELSE obj[k]]

PriceResponseKeys ==
    {"price", "value", "gasPrice", "gas", "estimatedGas", "protocolFee",
     "minimumProtocolFee", "buyTokenAddress", "buyAmount", "sellTokenAddress",
     "sellAmount", "sources", "allowanceTarget", "sellTokenToEthRate",
     "buyTokenToEthRate"}

\* priceComparisonUtils.renameNative
RenameNative(source) == IF source = "Native" THEN "0x" ELSE source

\* priceComparisonUtils.getPriceComparisonFromQuote(..)?.map(renameNative): the
\* comparison (here of one source) or undefined, as the utility answers
PriceComparisons(d) ==
    IF d.comparisons = Undefined THEN Undefined ELSE RenameNative(d.comparisons)

HasQuoteReport(quote) == "quoteReport" \in DOMAIN quote

\* a response: what the handler sent, or the error that left it
NoBody == [kind |-> "none", value |-> ""]
JsonBody(obj) == [kind |-> "json", value |-> obj]

NoResponse ==
    [sent |-> FALSE, status |-> 0, body |-> NoBody, thrown |-> NoError,
     quoteReportLogged |-> FALSE]

Throws(e) ==
    [sent |-> FALSE, status |-> 0, body |-> NoBody, thrown |-> e,
     quoteReportLogged |-> FALSE]

Sends(status, body, logged) ==
    [sent |-> TRUE, status |-> status, body |-> body, thrown |-> NoError,
     quoteReportLogged |-> logged]

\* getSwapQuoteAsync, after the quote is computed
QuoteResponseBody(p, quote, d) ==
    LET response == Omit(quote, {"quoteReport", "decodedUniqueId"})
    IN  IF p.includePriceComparisons /\ HasQuoteReport(quote)
        THEN Assign(response, "priceComparisons", PriceComparisons(d))
        ELSE response

\* quoteReportUtils.logQuoteReport is called
QuoteReportLogged(p, quote) ==
    p.rfqt.defined /\ HasQuoteReport(quote) /\ p.rfqt.intentOnFilling

\* getSwapPriceAsync, after the quote is computed: the picked `response` is
\* built, and `quote` is what is sent
PriceResponse(p, quote, d) ==
    LET picked   == Pick(quote, PriceResponseKeys)
        response == IF p.includePriceComparisons /\ HasQuoteReport(quote)
                    THEN Assign(picked, "priceComparisons", PriceComparisons(d))
                    ELSE picked
    IN  [response |-> response, sentBody |-> quote]

PriceResponseBody(p, quote, d) == PriceResponse(p, quote, d).sentBody

\* the parameters getSwapPriceAsync computes the quote with
PriceParams(p) == [p EXCEPT !.skipValidation = TRUE]

SwapResponse(endpoint, parsed, calculated, d) ==
    IF ~parsed.ok THEN Throws(parsed.error)
    ELSE IF ~calculated.returned THEN Throws(calculated.thrown)
    ELSE IF endpoint = "quote"
         THEN Sends(HttpStatusOK,
                    JsonBody(QuoteResponseBody(parsed.value, calculated.quote, d)),
                    QuoteReportLogged(parsed.value, calculated.quote))
         ELSE Sends(HttpStatusOK,
                    JsonBody(PriceResponseBody(parsed.value, calculated.quote, d)),
                    FALSE)

-----------------------------------------------------------------------------
(* The RFQT registry endpoint *)

\* RFQT_REGISTRY_PASSWORDS and RFQT_API_KEY_WHITELIST of src/config.ts
TOKEN_LENGTH == 36

RECURSIVE Repeat(_, _)
Repeat(c, n) == IF n = 0 THEN "" ELSE c \o Repeat(c, n - 1)

RegistryPassword == Repeat("a", TOKEN_LENGTH)
RFQT_REGISTRY_PASSWORDS == {RegistryPassword}
REGISTRY_SET == RFQT_REGISTRY_PASSWORDS

RfqtApiKey == "rfqt-key"
RFQT_API_KEY_WHITELIST == <<RfqtApiKey>>

\* what \s and . match in a JavaScript regular expression
RegexWhiteSpace == {" ", "\t", "\n", "\r", "\f"}
LineTerminators == {"\n", "\r"}

\* auth.match(/^Bearer\s(.{36})$/): [matched, token]
BearerMatch(auth) ==
    LET n == Len("Bearer") + 1 + TOKEN_LENGTH
        matched == /\ Len(auth) = n
                   /\ SubSeq(auth, 1, Len("Bearer")) = "Bearer"
                   /\ CharAt(auth, Len("Bearer") + 1) \in RegexWhiteSpace
                   /\ \A i \in (Len("Bearer") + 2)..n : CharAt(auth, i) \notin LineTerminators
    IN  [matched |-> matched,
         token |-> IF matched THEN SubSeq(auth, Len("Bearer") + 2, n) ELSE Undefined]

\* `auth || 'N/A'`
RegistryLabel(auth) == IF TruthyStr(auth) THEN auth ELSE "N/A"

\* mutant: the count is set, not incremented
IncSetsToOne(c, l) ==
    [k \in (DOMAIN c) \cup {l} |-> IF k = l THEN 1 ELSE c[k]]

\* Counter.labels(l).inc(): a label's child is created on its first use
Inc(c, l) ==
    [k \in (DOMAIN c) \cup {l} |-> IF k = l
                                   THEN (IF l \in DOMAIN c THEN c[l] + 1 ELSE 1)
                                   ELSE c[k]]

Unauthorized == Sends(HttpStatusUNAUTHORIZED, NoBody, FALSE)

\* mutant: any well-formed bearer token is let in
RegistryResponseNoMembership(auth) ==
    IF auth = Undefined THEN Unauthorized
    ELSE IF ~BearerMatch(auth).matched THEN Unauthorized
    ELSE Sends(HttpStatusOK, [kind |-> "whitelist", value |-> RFQT_API_KEY_WHITELIST],
               FALSE)

RegistryResponse(auth) ==
    IF auth = Undefined THEN Unauthorized
    ELSE IF ~BearerMatch(auth).matched THEN Unauthorized
    ELSE IF BearerMatch(auth).token \notin REGISTRY_SET THEN Unauthorized
    ELSE Sends(HttpStatusOK, [kind |-> "whitelist", value |-> RFQT_API_KEY_WHITELIST],
               FALSE)

-----------------------------------------------------------------------------
(* Requests and the collaborators' answers *)

TakerAddress == "0x7a4e3b1c9d5f0a2b6c8e1d3f5a7b9c0d2e4f6a8b"
FeeRecipient == "0x1f9840a85d5af5bf1d1762f925bdaddc4201f984"

BaseQuery ==
    [sellToken |-> "DAI", buyToken |-> "WETH",
     sellAmount |-> "15", buyAmount |-> Undefined,
     slippagePercentage |-> Undefined,
     feeRecipient |-> Undefined,
     sellTokenPercentageFee |-> Undefined, buyTokenPercentageFee |-> Undefined,
     takerAddress |-> Undefined, intentOnFilling |-> Undefined,
     includePriceComparisons |-> Undefined, skipValidation |-> Undefined]

Request(handler, auth, apiKey, query) ==
    [handler |-> handler, auth |-> auth, apiKey |-> apiKey, query |-> query]

NoRequest == Request("none", Undefined, Undefined, BaseQuery)

\* quotes the swap service may return: with or without the internal fields
QuoteBase ==
    [price |-> "1.1", to |-> "0xdef1", data |-> "0xd9627aa4",
     buyTokenAddress |-> WETH_ADDRESS, sellTokenAddress |-> DAI_ADDRESS,
     sources |-> "Uniswap", orders |-> "orders"]

Quotes ==
    {QuoteBase,
     Assign(QuoteBase, "quoteReport", "report"),
     Assign(QuoteBase, "decodedUniqueId", "id-1"),
     Assign(Assign(QuoteBase, "quoteReport", "report"), "decodedUniqueId", "id-1")}

Failure(isAPI, isRevert, message) ==
    [isAPIError |-> isAPI, isRevertError |-> isRevert, message |-> message]

FailureMessages ==
    {InsufficientAssetLiquidity,
     InsufficientAssetLiquidity \o ": DAI",
     "NO_OPTIMAL_PATH",
     AssetUnavailable \o ": DAI",
     "x " \o InsufficientAssetLiquidity,
     "connect ETIMEDOUT",
     ""}

Failures == {Failure(a, r, m) : a \in BOOLEAN, r \in BOOLEAN, m \in FailureMessages}

Down(schemaValid, sources, swap, comparisons) ==
    [schemaValid |-> schemaValid, sources |-> sources, swap |-> swap,
     comparisons |-> comparisons]

SourcesOk(flag) == [throws |-> FALSE, nativeExclusivelyRFQT |-> flag]
SourcesThrow == [throws |-> TRUE, nativeExclusivelyRFQT |-> FALSE]

SwapReturns(quote) == [throws |-> FALSE, failure |-> NoFailure, quote |-> quote]
SwapThrows(e) == [throws |-> TRUE, failure |-> e, quote |-> NoQuote]

NoDown == Down(TRUE, SourcesOk(FALSE), SwapReturns(NoQuote), Undefined)

(* Inputs of parseGetSwapQuoteRequestParams: three slices of the input space,
   each wide in the parameters one rule reads. *)
SlippageTexts == Texts({"0", "1", "5", ".", "-", "x"}, MaxStrLen) \cup {Undefined, " 1", "0.05"}

FeeTexts == {Undefined, "", "0", "0.0", "-0", "0.5", "1", "1.5", "-0.5", "-1.5", "x"}

Endpoints == {"quote", "price"}

ParseInputs ==
    \* the slippage rule
    {<<Request(e, Undefined, Undefined,
               [BaseQuery EXCEPT !.slippagePercentage = s,
                                 !.sellTokenPercentageFee = sf,
                                 !.buyTokenPercentageFee = bf]),
       Down(v, src, SwapReturns(NoQuote), Undefined)>> :
        e \in Endpoints, s \in SlippageTexts, sf \in {Undefined, "0.5"},
        bf \in {Undefined, "1.5"}, v \in BOOLEAN, src \in {SourcesOk(FALSE), SourcesThrow}}
    \cup
    \* the affiliate fee rules
    {<<Request(e, Undefined, Undefined,
               [BaseQuery EXCEPT !.slippagePercentage = s,
                                 !.feeRecipient = fr,
                                 !.sellTokenPercentageFee = sf,
                                 !.buyTokenPercentageFee = bf]),
       Down(TRUE, src, SwapReturns(NoQuote), Undefined)>> :
        e \in Endpoints, s \in {Undefined, "0.5", "1.5"},
        fr \in {Undefined, "", FeeRecipient}, sf \in FeeTexts, bf \in FeeTexts,
        src \in {SourcesOk(FALSE), SourcesThrow}}
    \cup
    \* the RFQT options
    {<<Request(e, Undefined, k,
               [BaseQuery EXCEPT !.slippagePercentage = s,
                                 !.takerAddress = t,
                                 !.intentOnFilling = i]),
       Down(TRUE, src, SwapReturns(NoQuote), Undefined)>> :
        e \in Endpoints, k \in {Undefined, "", RfqtApiKey, "other-key"},
        t \in {Undefined, "", TakerAddress},
        i \in {Undefined, "true", "false", "TRUE", ""},
        s \in {Undefined, "1.5"},
        src \in {SourcesOk(FALSE), SourcesOk(TRUE), SourcesThrow}}

(* Inputs of _calculateSwapQuoteAsync *)
Tokens == {ETH_SYMBOL, ETHER_TOKEN_ADDRESS, "WETH", WETH_ADDRESS, "DAI", DAI_ADDRESS, "ZZZ"}

Amounts == {NoAmount, [defined |-> TRUE, value |-> 0], [defined |-> TRUE, value |-> 15]}

CalcInputs ==
    {<<[NoParams EXCEPT !.sellToken = st, !.buyToken = bt,
                        !.sellAmount = sa, !.buyAmount = ba,
                        !.slippagePercentage = DEFAULT_QUOTE_SLIPPAGE_PERCENTAGE],
       Down(TRUE, SourcesOk(FALSE), sw, Undefined)>> :
        st \in Tokens, bt \in Tokens, sa \in Amounts, ba \in Amounts,
        sw \in {SwapReturns(QuoteBase)} \cup {SwapThrows(f) : f \in Failures}}

(* Requests the server handles *)
AuthHeaders ==
    {Undefined,
     "",
     "Bearer " \o RegistryPassword,
     "Bearer\t" \o RegistryPassword,
     "Bearer " \o Repeat("b", TOKEN_LENGTH),
     "Bearer " \o Repeat("a", TOKEN_LENGTH - 1),
     "Bearer " \o Repeat("a", TOKEN_LENGTH + 1)}

SwapQueries ==
    {[BaseQuery EXCEPT !.sellToken = tk[1], !.buyToken = tk[2],
                       !.includePriceComparisons = pc,
                       !.takerAddress = TakerAddress,
                       !.intentOnFilling = "true"] :
        tk \in {<<"DAI", "WETH">>, <<ETH_SYMBOL, "WETH">>},
        pc \in {Undefined, "true"}}

FullQuote == Assign(Assign(QuoteBase, "quoteReport", "report"), "decodedUniqueId", "id-1")

SwapDowns ==
    {Down(TRUE, SourcesOk(FALSE), SwapReturns(quote), "Native") : quote \in Quotes}
    \cup {Down(TRUE, SourcesOk(FALSE), SwapReturns(FullQuote), Undefined)}
    \cup {Down(TRUE, SourcesOk(FALSE), SwapThrows(f), Undefined) :
        f \in {Failure(FALSE, FALSE, "NO_OPTIMAL_PATH"), Failure(FALSE, TRUE, "revert")}}
    \cup {Down(FALSE, SourcesOk(FALSE), SwapReturns(QuoteBase), Undefined)}

ApiKeys == {Undefined, RfqtApiKey}

-----------------------------------------------------------------------------
(* The server: requests are handled one at a time, each to completion *)

NoFetched == [h \in AuthHeaders |-> 0]
NoCounter == [l \in {} |-> 0]

Init ==
    /\ phase = "serving"
    /\ req = NoRequest
    /\ down = NoDown
    /\ params = NotParsed
    /\ calc = NotCalculated
    /\ res = NoResponse
    /\ counter = NoCounter
    /\ fetched = NoFetched
    /\ served = 0

GetRfqRegistryAsync(auth) ==
    /\ phase = "serving"
    /\ served < MaxRequests
    /\ req' = Request("registry", auth, Undefined, BaseQuery)
    /\ down' = NoDown
    /\ counter' = Inc(counter, RegistryLabel(auth))
    /\ res' = RegistryResponse(auth)
    /\ params' = NotParsed
    /\ calc' = NotCalculated
    /\ fetched' = [fetched EXCEPT ![auth] = @ + 1]
    /\ served' = served + 1
    /\ UNCHANGED phase

\* getSwapQuoteAsync and getSwapPriceAsync: parse, compute, respond
HandleSwap(endpoint, apiKey, query, d) ==
    /\ phase = "serving"
    /\ served < MaxRequests
    /\ req' = Request(endpoint, Undefined, apiKey, query)
    /\ down' = d
    /\ params' = ParseGetSwapQuoteRequestParams(req', d, endpoint)
    /\ calc' = IF params'.ok
               THEN CalculateSwapQuoteAsync(
                        IF endpoint = "price" THEN PriceParams(params'.value)
                        ELSE params'.value, d)
               ELSE NotCalculated
    /\ res' = SwapResponse(endpoint, params', calc', d)
    /\ served' = served + 1
    /\ UNCHANGED <<phase, counter, fetched>>

GetSwapQuoteAsync(apiKey, query, d) == HandleSwap("quote", apiKey, query, d)

GetSwapPriceAsync(apiKey, query, d) == HandleSwap("price", apiKey, query, d)

Next ==
    \/ \E auth \in AuthHeaders : GetRfqRegistryAsync(auth)
    \/ \E k \in ApiKeys, q \in SwapQueries, d \in SwapDowns : GetSwapQuoteAsync(k, q, d)
    \/ \E k \in ApiKeys, q \in SwapQueries, d \in SwapDowns : GetSwapPriceAsync(k, q, d)

Spec == Init /\ [][Next]_vars

-----------------------------------------------------------------------------
(* One call of parseGetSwapQuoteRequestParams, on every enumerated input *)

InitParse ==
    /\ phase = "input"
    /\ \E in \in ParseInputs : req = in[1] /\ down = in[2]
    /\ params = NotParsed
    /\ calc = NotCalculated
    /\ res = NoResponse
    /\ counter = NoCounter
    /\ fetched = NoFetched
    /\ served = 0

Parse ==
    /\ phase = "input"
    /\ params' = ParseGetSwapQuoteRequestParams(req, down, req.handler)
    /\ phase' = "done"
    /\ UNCHANGED <<req, down, calc, res, counter, fetched, served>>

NextParse == Parse

SpecParse == InitParse /\ [][NextParse]_vars

-----------------------------------------------------------------------------
(* One call of _calculateSwapQuoteAsync, on every enumerated input *)

InitCalc ==
    /\ phase = "input"
    /\ req = NoRequest
    /\ \E in \in CalcInputs : params = Returned(in[1]) /\ down = in[2]
    /\ calc = NotCalculated
    /\ res = NoResponse
    /\ counter = NoCounter
    /\ fetched = NoFetched
    /\ served = 0

Calculate ==
    /\ phase = "input"
    /\ calc' = CalculateSwapQuoteAsync(params.value, down)
    /\ phase' = "done"
    /\ UNCHANGED <<req, down, params, res, counter, fetched, served>>

NextCalc == Calculate

SpecCalc == InitCalc /\ [][NextCalc]_vars

-----------------------------------------------------------------------------
(* Claims about _calculateSwapQuoteAsync, checked under SpecCalc *)

EqualTokenReason == "buyToken and sellToken must be different"

\* the error carries an entry with the equal-token reason
IsEqualTokenError(e) ==
    e.kind = "ValidationError"
    /\ \E i \in 1..Len(e.entries) : e.entries[i].reason = EqualTokenReason

\* the address a leg resolves to, ETH standing for WETH; Undefined when unknown
ResolvedAddress(t) ==
    LET u == IF t \in {ETH_SYMBOL, ETHER_TOKEN_ADDRESS} THEN "WETH" ELSE t
    IN  IF IsAddress(u) THEN u
        ELSE IF u \in DOMAIN TokenTable THEN TokenTable[u] ELSE Undefined

SellsETH == params.value.sellToken \in {ETH_SYMBOL, ETHER_TOKEN_ADDRESS}
BuysETH == params.value.buyToken \in {ETH_SYMBOL, ETHER_TOKEN_ADDRESS}
SellsWETH == params.value.sellToken \in {"WETH", WETH_ADDRESS}
BuysWETH == params.value.buyToken \in {"WETH", WETH_ADDRESS}

WrapPair == SellsETH /\ BuysWETH
UnwrapPair == SellsWETH /\ BuysETH
OrdinaryPair == ~WrapPair /\ ~UnwrapPair

BothResolve ==
    /\ ResolvedAddress(params.value.sellToken) # Undefined
    /\ ResolvedAddress(params.value.buyToken) # Undefined

(* C1: the "buyToken and sellToken must be different" ValidationError is
   raised if and only if the pair is ordinary (neither wrap nor unwrap) and
   the resolved sell and buy addresses are equal.  When raised it carries
   exactly two entries, one for buyToken and one for sellToken, both with code
   RequiredField.  For a wrap or unwrap pair it is never raised although both
   legs resolve to the WETH address.  ETH/ETH and WETH/WETH are ordinary and
   are rejected. *)
C1_EqualTokenErrorIffOrdinaryAndEqual ==
    phase = "done" =>
        LET raised == IsEqualTokenError(calc.thrown)
            sell   == ResolvedAddress(params.value.sellToken)
            buy    == ResolvedAddress(params.value.buyToken)
        IN  /\ raised <=> (BothResolve /\ OrdinaryPair /\ sell = buy)
            /\ raised =>
                 /\ Len(calc.thrown.entries) = 2
                 /\ {calc.thrown.entries[i].field : i \in 1..2} = {"buyToken", "sellToken"}
                 /\ \A i \in 1..2 : calc.thrown.entries[i].code = "RequiredField"
                 /\ calc.calls = <<>>
            /\ (WrapPair \/ UnwrapPair) =>
                 ~raised /\ sell = WETH_ADDRESS /\ buy = WETH_ADDRESS
            /\ (SellsETH /\ BuysETH) => raised
            /\ (SellsWETH /\ BuysWETH) => raised

\* a wrap (sell ETH, buy the WETH address) is not rejected: the service is
\* called with equal sell and buy addresses
C1_Witness_WrapNotRejected ==
    /\ phase = "done"
    /\ params.value.sellToken = ETH_SYMBOL
    /\ params.value.buyToken = WETH_ADDRESS
    /\ ~IsEqualTokenError(calc.thrown)
    /\ Len(calc.calls) = 1
    /\ calc.calls[1].request.sellTokenAddress = calc.calls[1].request.buyTokenAddress

(* C9: a failure raised by the downstream computation becomes exactly one
   thrown error, by the first matching rule: (1) an API error is rethrown
   unchanged; (2) a revert error is wrapped as RevertAPIError; (3) a message
   starting with the insufficient-liquidity marker or with NO_OPTIMAL_PATH
   gives a one-entry ValidationError with code ValueOutOfRange on buyAmount
   when a buy amount was supplied (also next to a sell amount), else on
   sellAmount; (4) a message starting with the asset-unavailable marker gives
   a ValidationError on field token whose reason is the raw message; (5)
   anything else gives InternalServerError with the raw message. *)
C9_FailureClassifiedByFirstRule ==
    (phase = "done" /\ Len(calc.calls) = 1 /\ down.swap.throws) =>
        LET e   == down.swap.failure
            t   == calc.thrown
            liq == StartsWith(e.message, "INSUFFICIENT_ASSET_LIQUIDITY")
                   \/ StartsWith(e.message, "NO_OPTIMAL_PATH")
            una == StartsWith(e.message, "ASSET_UNAVAILABLE")
        IN  /\ ~calc.returned
            /\ t.kind \in {"rethrown", "RevertAPIError", "ValidationError",
                           "InternalServerError"}
            /\ e.isAPIError => (t.kind = "rethrown" /\ t.cause = e)
            /\ (~e.isAPIError /\ e.isRevertError) =>
                 (t.kind = "RevertAPIError" /\ t.cause = e)
            /\ (~e.isAPIError /\ ~e.isRevertError /\ liq) =>
                 /\ t.kind = "ValidationError"
                 /\ Len(t.entries) = 1
                 /\ t.entries[1].code = "ValueOutOfRange"
                 /\ t.entries[1].field = (IF params.value.buyAmount.defined
                                          THEN "buyAmount" ELSE "sellAmount")
            /\ (~e.isAPIError /\ ~e.isRevertError /\ ~liq /\ una) =>
                 /\ t.kind = "ValidationError"
                 /\ Len(t.entries) = 1
                 /\ t.entries[1].field = "token"
                 /\ t.entries[1].reason = e.message
            /\ (~e.isAPIError /\ ~e.isRevertError /\ ~liq /\ ~una) =>
                 (t.kind = "InternalServerError" /\ t.message = e.message)

\* no optimal path with a zero buy amount next to a sell amount: field buyAmount
C9_Witness_BuyAmountNextToSellAmount ==
    /\ phase = "done"
    /\ down.swap.throws
    /\ down.swap.failure = Failure(FALSE, FALSE, "NO_OPTIMAL_PATH")
    /\ params.value.buyAmount = [defined |-> TRUE, value |-> 0]
    /\ params.value.sellAmount.defined
    /\ calc.thrown.kind = "ValidationError"
    /\ calc.thrown.entries[1].field = "buyAmount"

\* token resolution and the equal-token check both pass
PassesChecks ==
    /\ BothResolve
    /\ ~(OrdinaryPair
         /\ ResolvedAddress(params.value.sellToken)
              = ResolvedAddress(params.value.buyToken))

\* the methods of the swap service invoked by the call, in order
MethodsInvoked == [i \in 1..Len(calc.calls) |-> calc.calls[i].method]

(* C11: each call of _calculateSwapQuoteAsync invokes at most one downstream
   computation, and exactly one when token resolution and the equal-token
   check pass: getSwapQuoteForUnwrapAsync if and only if the pair is an
   unwrap, getSwapQuoteForWrapAsync if and only if it is a wrap,
   calculateSwapQuoteAsync if and only if it is ordinary.  No pair is both a
   wrap and an unwrap, the request passed down always has isMetaTransaction
   false, and nothing is invoked when the equal-token ValidationError is
   raised. *)
C11_ExactlyOneDownstreamByClassification ==
    /\ ~(WrapPair /\ UnwrapPair)
    /\ phase = "input" => calc.calls = <<>>
    /\ phase = "done" =>
         /\ Len(calc.calls) <= 1
         /\ \A i \in 1..Len(calc.calls) :
                calc.calls[i].request.isMetaTransaction = FALSE
         /\ IsEqualTokenError(calc.thrown) => calc.calls = <<>>
         /\ PassesChecks =>
              /\ Len(calc.calls) = 1
              /\ (MethodsInvoked = <<"getSwapQuoteForUnwrapAsync">>) <=> UnwrapPair
              /\ (MethodsInvoked = <<"getSwapQuoteForWrapAsync">>) <=> WrapPair
              /\ (MethodsInvoked = <<"calculateSwapQuoteAsync">>) <=> OrdinaryPair

\* a wrap named by addresses (sell the ether address, buy the WETH address)
\* whose downstream computation fails: getSwapQuoteForWrapAsync was invoked,
\* once, with isMetaTransaction false
C11_Witness_WrapByAddressInvokedOnce ==
    /\ phase = "done"
    /\ params.value.sellToken = ETHER_TOKEN_ADDRESS
    /\ params.value.buyToken = WETH_ADDRESS
    /\ down.swap.throws
    /\ MethodsInvoked = <<"getSwapQuoteForWrapAsync">>
    /\ calc.calls[1].request.isMetaTransaction = FALSE
    /\ ~calc.returned

-----------------------------------------------------------------------------
(* Claims about parseGetSwapQuoteRequestParams, checked under SpecParse *)

\* what Number.parseFloat makes of the raw parameters
RawSlippage == ParseFloat(req.query.slippagePercentage)
RawSellFee == ParseFloat(req.query.sellTokenPercentageFee)
RawBuyFee == ParseFloat(req.query.buyTokenPercentageFee)

\* the parse failed with exactly one entry, on this field with this code
FailedOn(field, code) ==
    /\ ~params.ok
    /\ params.error.kind = "ValidationError"
    /\ Len(params.error.entries) = 1
    /\ params.error.entries[1].field = field
    /\ params.error.entries[1].code = code

\* no affiliate fee parameter is sent and the source filters resolve
NothingElseFails ==
    /\ req.query.sellTokenPercentageFee = Undefined
    /\ req.query.buyTokenPercentageFee = Undefined
    /\ ~down.sources.throws

(* C2: for every schema-valid request, a slippagePercentage that parses to
   more than 1 fails with a ValidationError on slippagePercentage, code
   ValueOutOfRange, reason PercentageOutOfRange; one that parses into (0,1]
   passes the slippage rule (the parse succeeds unless a later rule, on the
   fees or the sources, fails) and the returned request carries exactly that
   value; an absent or unparsable one likewise, with the default 0.01. *)
C2_SlippageRule ==
    (phase = "done" /\ down.schemaValid) =>
        LET raw == RawSlippage
        IN  /\ (~raw.nan /\ raw.v > Scale) =>
                 /\ FailedOn("slippagePercentage", "ValueOutOfRange")
                 /\ params.error.entries[1].reason = "PercentageOutOfRange"
            /\ (~raw.nan /\ raw.v > 0 /\ raw.v <= Scale) =>
                 /\ params.ok => params.value.slippagePercentage = raw
                 /\ ~params.ok => params.error.entries[1].field # "slippagePercentage"
                 /\ NothingElseFails => params.ok
            /\ raw.nan =>
                 /\ params.ok => params.value.slippagePercentage.v * 100 = Scale
                 /\ params.ok => ~params.value.slippagePercentage.nan
                 /\ ~params.ok => params.error.entries[1].field # "slippagePercentage"
                 /\ NothingElseFails => params.ok

\* "1" is accepted and carried, and so is the text "1." with nothing after the point
C2_Witness_OneAccepted ==
    /\ phase = "done"
    /\ down.schemaValid
    /\ req.query.slippagePercentage = "1."
    /\ params.ok
    /\ params.value.slippagePercentage = Num(Scale)

(* C3: a slippagePercentage that parses to a non-positive value (zero or
   negative) is replaced by the default, so the slippagePercentage of every
   returned request lies in [0,1]. *)
C3_SlippageInUnitInterval ==
    (phase = "done" /\ params.ok) =>
        /\ ~params.value.slippagePercentage.nan
        /\ params.value.slippagePercentage.v >= 0
        /\ params.value.slippagePercentage.v <= Scale
        /\ (~RawSlippage.nan /\ RawSlippage.v <= 0) =>
             params.value.slippagePercentage = DEFAULT_QUOTE_SLIPPAGE_PERCENTAGE

\* the earlier rules (schema, slippage) let the request through
ReachesFeeRules ==
    /\ down.schemaValid
    /\ ~(~params.ok /\ params.error.entries[1].field = "slippagePercentage")

\* `x || 0` of a raw fee: what the code compares and stores
FeeValue(raw) == IF raw.nan THEN 0 ELSE raw.v

(* C4: among requests that reach the fee rules: a sellTokenPercentageFee > 0
   fails with a ValidationError on sellTokenPercentageFee, code
   UnsupportedOption; otherwise a buyTokenPercentageFee > 1 fails with a
   ValidationError on buyTokenPercentageFee, code ValueOutOfRange; otherwise,
   with a feeRecipient and a buy fee in [0,1], the returned affiliateFee
   carries that recipient and exactly that buy fee, and without a
   feeRecipient it is the NULL_ADDRESS recipient with both fees 0. *)
C4_AffiliateFeeRules ==
    (phase = "done" /\ ReachesFeeRules) =>
        LET sell == FeeValue(RawSellFee)
            buy  == FeeValue(RawBuyFee)
            fr   == req.query.feeRecipient
            has  == fr # Undefined /\ fr # ""
        IN  /\ sell > 0 => FailedOn("sellTokenPercentageFee", "UnsupportedOption")
            /\ (sell <= 0 /\ buy > Scale) =>
                 FailedOn("buyTokenPercentageFee", "ValueOutOfRange")
            /\ (sell <= 0 /\ buy <= Scale) =>
                 /\ ~down.sources.throws => params.ok
                 /\ (params.ok /\ has /\ buy >= 0) =>
                      /\ params.value.affiliateFee.recipient = fr
                      /\ params.value.affiliateFee.buyTokenPercentageFee = Num(buy)
                 /\ (params.ok /\ ~has) =>
                      params.value.affiliateFee =
                          [recipient |-> NULL_ADDRESS,
                           sellTokenPercentageFee |-> Num(0),
                           buyTokenPercentageFee |-> Num(0)]

\* a buy fee of exactly 1 with a recipient is carried
C4_Witness_FullBuyFeeCarried ==
    /\ phase = "done"
    /\ req.query.feeRecipient = FeeRecipient
    /\ req.query.buyTokenPercentageFee = "1"
    /\ params.ok
    /\ params.value.affiliateFee.recipient = FeeRecipient
    /\ params.value.affiliateFee.buyTokenPercentageFee = Num(Scale)

(* C5: every affiliateFee of a returned request has sellTokenPercentageFee
   exactly 0 and buyTokenPercentageFee at most 1, for every input, negative
   fee values sent with a feeRecipient included. *)
C5_AffiliateFeeInvariant ==
    (phase = "done" /\ params.ok) =>
        /\ params.value.affiliateFee.sellTokenPercentageFee = Num(0)
        /\ ~params.value.affiliateFee.buyTokenPercentageFee.nan
        /\ params.value.affiliateFee.buyTokenPercentageFee.v <= Scale

(* C6: the returned rfqt options are a function of the endpoint, of whether
   an API key and a taker address are supplied, and of the intentOnFilling
   parameter: undefined without an API key; on quote with API key and taker
   address, intentOnFilling = (the parameter is the text "true") and
   isIndicative = false; on quote with API key and no taker address,
   undefined; on price with API key, intentOnFilling = false and isIndicative
   = true whatever the parameter and the taker address.  nativeExclusivelyRFQT
   is the flag the source-filter resolution returned. *)
C6_RfqtOptions ==
    (phase = "done" /\ params.ok) =>
        LET key   == req.apiKey # Undefined /\ req.apiKey # ""
            taker == req.query.takerAddress # Undefined /\ req.query.takerAddress # ""
            rfqt  == params.value.rfqt
            flag  == down.sources.nativeExclusivelyRFQT
        IN  /\ ~key => ~rfqt.defined
            /\ (key /\ req.handler = "quote" /\ taker) =>
                 rfqt = [defined |-> TRUE,
                         intentOnFilling |-> (req.query.intentOnFilling = "true"),
                         isIndicative |-> FALSE,
                         nativeExclusivelyRFQT |-> flag]
            /\ (key /\ req.handler = "quote" /\ ~taker) => ~rfqt.defined
            /\ (key /\ req.handler = "price") =>
                 rfqt = [defined |-> TRUE,
                         intentOnFilling |-> FALSE,
                         isIndicative |-> TRUE,
                         nativeExclusivelyRFQT |-> flag]

\* price with an API key, no taker address and intentOnFilling=true: indicative
C6_Witness_PriceIsIndicative ==
    /\ phase = "done"
    /\ params.ok
    /\ req.handler = "price"
    /\ req.apiKey = RfqtApiKey
    /\ req.query.takerAddress = Undefined
    /\ req.query.intentOnFilling = "true"
    /\ down.sources.nativeExclusivelyRFQT
    /\ params.value.rfqt.isIndicative
    /\ ~params.value.rfqt.intentOnFilling
    /\ params.value.rfqt.nativeExclusivelyRFQT

-----------------------------------------------------------------------------
(* Claims about the endpoints, checked under Spec *)

LastWasRegistry == req.handler = "registry"

SentWhitelist ==
    /\ res.sent
    /\ res.status = 200
    /\ res.body.kind = "whitelist"
    /\ res.body.value = RFQT_API_KEY_WHITELIST

SentUnauthorizedWithoutBody ==
    /\ res.sent
    /\ res.status = 401
    /\ res.body.kind = "none"

NoLineTerminator(t) == \A i \in 1..Len(t) : CharAt(t, i) \notin {"\n", "\r"}

\* 'Bearer ', then exactly 36 characters that are a configured password
BearerSpacePassword(auth) ==
    /\ auth # Undefined
    /\ \E t \in RFQT_REGISTRY_PASSWORDS : Len(t) = 36 /\ auth = "Bearer " \o t

\* 'Bearer', one white-space character, then exactly 36 characters that are a
\* configured password
BearerWhiteSpacePassword(auth) ==
    /\ auth # Undefined
    /\ \E t \in RFQT_REGISTRY_PASSWORDS, w \in {" ", "\t", "\n", "\r", "\f"} :
          Len(t) = 36 /\ NoLineTerminator(t) /\ auth = "Bearer" \o w \o t

(* C7, as claimed: getRfqRegistryAsync responds OK with the whitelist if and
   only if the Authorization header is present, is 'Bearer ' followed by
   exactly 36 characters, and those characters are a registry password; in
   every other case it responds UNAUTHORIZED with no body. *)
C7_Original_BearerSpaceOnly ==
    LastWasRegistry =>
        /\ SentWhitelist <=> BearerSpacePassword(req.auth)
        /\ ~BearerSpacePassword(req.auth) => SentUnauthorizedWithoutBody

(* C7, amended: getRfqRegistryAsync responds OK with the whitelist if and only
   if the Authorization header is present and is 'Bearer', one white-space
   character (a space, a tab, ...), then exactly 36 characters that are a
   registry password; in every other case it responds UNAUTHORIZED with no
   body and never sends the whitelist. *)
C7_WhitelistIffBearerPassword ==
    LastWasRegistry =>
        /\ SentWhitelist <=> BearerWhiteSpacePassword(req.auth)
        /\ ~BearerWhiteSpacePassword(req.auth) => SentUnauthorizedWithoutBody
        /\ res.thrown = NoError

\* the password after 'Bearer' and a tab is let in
C7_Witness_TabSeparatorAuthorized ==
    /\ LastWasRegistry
    /\ req.auth = "Bearer\t" \o Repeat("a", 36)
    /\ SentWhitelist

RECURSIVE SumOver(_, _)
SumOver(f, S) ==
    IF S = {} THEN 0
    ELSE LET x == CHOOSE y \in S : TRUE IN f[x] + SumOver(f, S \ {x})

\* the count of a label: 0 until its first increment
CountOf(l) == IF l \in DOMAIN counter THEN counter[l] ELSE 0

\* the number of registry requests made so far
RegistryRequests == SumOver(fetched, DOMAIN fetched)

\* the label as claimed: the raw header value, 'N/A' when the header is absent
ClaimedLabel(auth) == IF auth = Undefined THEN "N/A" ELSE auth

\* the label as amended: 'N/A' when the header is absent or empty
AmendedLabel(auth) == IF auth = Undefined \/ auth = "" THEN "N/A" ELSE auth

(* C8, as claimed: every call of getRfqRegistryAsync, authorized or not,
   increments the counter exactly once under the label equal to the raw
   Authorization header value, or 'N/A' when the header is absent; after N
   registry requests the label counts sum to N and the count of each label
   equals the number of requests that carried that header value; no other
   handler changes the counter. *)
C8_Original_LabelIsRawHeader ==
    /\ SumOver(counter, DOMAIN counter) = RegistryRequests
    /\ \A h \in DOMAIN fetched :
          CountOf(ClaimedLabel(h)) =
              SumOver(fetched, {g \in DOMAIN fetched : ClaimedLabel(g) = ClaimedLabel(h)})

(* C8, amended: every call of getRfqRegistryAsync, authorized or not,
   increments the counter exactly once under the label equal to the raw
   Authorization header value, or 'N/A' when the header is absent or empty;
   after N registry requests the label counts sum to N and the count of each
   label equals the number of requests whose header has that label; no other
   handler changes the counter. *)
C8_CounterCountsEveryRegistryRequest ==
    /\ SumOver(counter, DOMAIN counter) = RegistryRequests
    /\ DOMAIN counter = {AmendedLabel(h) : h \in {g \in DOMAIN fetched : fetched[g] > 0}}
    /\ \A h \in DOMAIN fetched :
          CountOf(AmendedLabel(h)) =
              SumOver(fetched, {g \in DOMAIN fetched : AmendedLabel(g) = AmendedLabel(h)})

\* a refused request with an empty header, a swap request and an authorized
\* request: 'N/A' and the authorized header each count one
C8_Witness_RefusedAndAuthorizedCounted ==
    /\ served = 3
    /\ LastWasRegistry
    /\ SentWhitelist
    /\ RegistryRequests = 2
    /\ fetched[""] = 1
    /\ CountOf("N/A") = 1
    /\ CountOf(req.auth) = 1

LastWasSwap == req.handler \in {"quote", "price"}

(* C10: for every successful request on the quote or the price endpoint, the
   body sent contains neither quoteReport nor decodedUniqueId, whatever the
   service returned; and when includePriceComparisons was requested and the
   service's result has a quoteReport, the body sent contains the
   priceComparisons field. *)
C10_InternalFieldsStripped ==
    (LastWasSwap /\ res.sent /\ res.status = 200) =>
        /\ "quoteReport" \notin DOMAIN res.body.value
        /\ "decodedUniqueId" \notin DOMAIN res.body.value
        /\ (req.query.includePriceComparisons = "true"
            /\ "quoteReport" \in DOMAIN down.swap.quote) =>
               "priceComparisons" \in DOMAIN res.body.value

====
